---- MODULE Spec2Model ----
(***************************************************************************)
(* Weather collector: the QueuePublisher (queue_publisher.py), the cycle   *)
(* collect_and_publish and the service start-up (collector.py), with the   *)
(* extraction and normalisation functions they call (api_client.py,        *)
(* normalizer.py).                                                         *)
(*                                                                         *)
(* The AMQP client library (pika), the HTTP library and the scheduler are  *)
(* the environment: each library call has the outcomes the library         *)
(* documents, chosen by the broker's state or nondeterministically.        *)
(***************************************************************************)
EXTENDS Integers, Sequences, FiniteSets, TLC

\* ------------------------------------------------------------------ bounds
\* Connections the publisher may open in one run (connection ids 1..MaxConns).
MaxConns == 2
\* Cycles of collect_and_publish the service runs in one behaviour.
MaxCycles == 3
\* Calls made on one publisher in the call-sequence specification.
MaxCalls == 4

VARIABLES
    \* QueuePublisher fields
    connection,     \* self._connection: 0 is None, else a connection id
    channel,        \* self._channel: 0 is None, else the id of the connection it belongs to
    \* broker / client library
    connState,      \* per connection id: "unopened", "open", "lost" (peer gone, is_open still True), "closed"
    chanState,      \* per connection id, its channel: "none", "open", "closed"
    brokerUp,       \* the broker accepts new connections
    delivered,      \* number of messages the broker accepted
    opens,          \* number of times BlockingConnection(...) was invoked
    \* the last call made on the publisher: op, what it raised (ret), whether
    \* basic_publish was invoked (send), the fields before the call (pre),
    \* whether connection.close() raised (closeRaised)
    call,
    \* caller of the publisher in the call-sequence specification
    calls,          \* calls made so far
    \* scoped use (with QueuePublisher(...) as p: ...)
    scope,
    \* service (WeatherCollector)
    pc, stage, cycleNo, api_response, weather_data, normalized, message,
    outcome, prev, startup,
    \* the termination signal received, if any, and what it met
    shutdown,
    \* a function of api_client.py / normalizer.py applied on its own: which
    \* (fn), its arguments (arg), what it returned or raised (ret)
    fn, arg, ret

pubVars   == <<connection, channel>>
envVars   == <<connState, chanState, brokerUp, delivered, opens>>
svcVars   == <<pc, stage, cycleNo, api_response, weather_data, normalized, message,
               outcome, prev, startup, shutdown>>
fnVars    == <<fn, arg, ret>>
vars      == <<connection, channel, connState, chanState, brokerUp, delivered,
               opens, call, calls, scope, pc, stage, cycleNo, api_response, weather_data,
               normalized, message, outcome, prev, startup, shutdown, fn, arg, ret>>

ConnIds == 1..MaxConns

\* ------------------------------------------------------------- exceptions
NoExc == [exc |-> "none", msg |-> ""]
Raise(kind, text) == [exc |-> kind, msg |-> text]

\* ---------------------------------------------------------- client library
\* connection.is_open as the library reports it: a connection whose peer has
\* gone is still reported open until the library next does I/O on it.
is_open(c) == connState[c] \in {"open", "lost"}

\* Connections opened and not closed, whether or not the publisher still
\* holds a handle on them.
OpenConns == {c \in ConnIds : is_open(c)}

\* The next unused connection id (0 when the bound is reached).
FreshConn == IF \E c \in ConnIds : connState[c] = "unopened"
             THEN CHOOSE c \in ConnIds :
                      /\ connState[c] = "unopened"
                      /\ \A d \in ConnIds : connState[d] = "unopened" => c <= d
             ELSE 0

\* Outcomes of the three library calls of connect(), as the path taken:
\*   open_connerr     BlockingConnection raises AMQPConnectionError
\*   channel_connerr  connection.channel() raises AMQPConnectionError (the
\*                    connection was lost)
\*   declare_chanerr  queue_declare raises AMQPChannelError (the broker closes
\*                    the channel, e.g. 406 PRECONDITION_FAILED)
\*   declare_connerr  queue_declare raises AMQPConnectionError
\*   all_ok           all three return
ConnectPaths == {"all_ok", "open_connerr", "channel_connerr", "declare_chanerr",
                 "declare_connerr"}

\* ---------------------------------------------------------- QueuePublisher
\* The publisher is Connected: its connection is open and its channel is a
\* channel of that connection.
Connected ==
    /\ connection # 0 /\ channel = connection
    /\ is_open(connection)
    /\ chanState[channel] # "none"

\* except AMQPConnectionError as e: raise QueuePublisherError(...) from e
\* (anything else the library raises leaves connect() as it is)
connect_except(path) ==
    CASE path = "all_ok" -> NoExc
      [] path \in {"open_connerr", "channel_connerr", "declare_connerr"}
            -> Raise("QueuePublisherError", "Connection failed")
      [] path = "declare_chanerr" -> Raise("AMQPChannelError", "PRECONDITION_FAILED")

\* QueuePublisher.connect(), the library taking `path`.
connect(path) ==
    /\ path = "open_connerr" <=> ~brokerUp
    /\ IF path = "open_connerr"
       THEN \* BlockingConnection(params) raised: no field is assigned
            /\ UNCHANGED <<connection, channel, connState, chanState>>
       ELSE LET c == FreshConn IN
            /\ c # 0
            /\ connection' = c
            /\ channel' = IF path = "channel_connerr" THEN channel ELSE c
            /\ connState' = [connState EXCEPT ![c] =
                    IF path \in {"channel_connerr", "declare_connerr"}
                    THEN "closed" ELSE "open"]
            /\ chanState' = [chanState EXCEPT ![c] =
                    CASE path = "channel_connerr" -> "none"
                      [] path \in {"declare_chanerr", "declare_connerr"} -> "closed"
                      [] OTHER -> "open"]
    /\ call' = [op |-> "connect", ret |-> connect_except(path), send |-> FALSE,
                pre |-> <<connection, channel>>,
                preOpen |-> connection # 0 /\ is_open(connection),
                closeRaised |-> FALSE, connected |-> Connected']
    /\ opens' = opens + 1
    /\ UNCHANGED <<brokerUp, delivered>>

\* if self._connection and self._connection.is_open:
disconnect_guard == connection # 0 /\ is_open(connection)

\* Mutant of disconnect_except: the except clause is missing, so what
\* connection.close() raises leaves disconnect().
disconnect_except_missing(closeRaised) ==
    IF closeRaised THEN Raise("AMQPConnectionError", "close") ELSE NoExc

\* What disconnect() lets out when connection.close() raised `closeRaised`:
\* except Exception: logger.warning(...)
disconnect_except(closeRaised) == NoExc

\* finally: self._connection = None; self._channel = None
disconnect_finally ==
    /\ connection' = 0
    /\ channel' = 0

\* QueuePublisher.disconnect(); closeRaised: connection.close() raises.
\* The library leaves a connection closed also when close() raises (the
\* stream was lost while closing).
disconnect(closeRaised) ==
    /\ closeRaised => disconnect_guard
    /\ connection # 0 /\ connState[connection] = "lost" => closeRaised
    /\ IF disconnect_guard
       THEN /\ connState' = [connState EXCEPT ![connection] = "closed"]
            /\ chanState' = [chanState EXCEPT ![connection] =
                                IF @ = "none" THEN "none" ELSE "closed"]
       ELSE UNCHANGED <<connState, chanState>>
    /\ disconnect_finally
    /\ call' = [op |-> "disconnect", ret |-> disconnect_except(closeRaised),
                send |-> FALSE, pre |-> <<connection, channel>>,
                preOpen |-> connection # 0 /\ is_open(connection),
                closeRaised |-> closeRaised, connected |-> Connected']
    /\ UNCHANGED <<brokerUp, delivered, opens>>

\* Mutant of publish_not_connected: the is_open test is missing.
publish_not_connected_no_is_open == channel = 0 \/ connection = 0

\* if not self._channel or not self._connection or not self._connection.is_open:
publish_not_connected ==
    channel = 0 \/ connection = 0 \/ ~is_open(connection)

\* What self._channel.basic_publish does in the broker's present state (a
\* channel carries the id of the connection it was opened on; None has no
\* basic_publish).
basic_publish_result ==
    CASE channel = 0 -> "AttributeError"
      [] connState[channel] = "lost" -> "AMQPConnectionError"
      [] chanState[channel] # "open" \/ connState[channel] # "open"
                                     -> "AMQPChannelError"
      [] OTHER                       -> "ok"

\* except AMQPChannelError as e: raise QueuePublisherError(...) from e
publish_except(r) ==
    CASE r = "ok" -> NoExc
      [] r = "AMQPChannelError" -> Raise("QueuePublisherError", "Publish failed")
      [] OTHER -> Raise(r, "")

\* Mutant of publish: called while not connected, publish() connects (and
\* returns without sending) instead of raising.
publish_connects_when_disconnected ==
    IF publish_not_connected
    THEN connect(IF brokerUp THEN "all_ok" ELSE "open_connerr")
    ELSE LET r == basic_publish_result IN
         /\ UNCHANGED <<connection, channel, chanState, brokerUp, opens>>
         /\ connState' = IF r = "AMQPConnectionError" /\ channel # 0
                         THEN [connState EXCEPT ![channel] = "closed"]
                         ELSE connState
         /\ delivered' = IF r = "ok" THEN delivered + 1 ELSE delivered
         /\ call' = [op |-> "publish", ret |-> publish_except(r),
                     send |-> channel # 0, pre |-> <<connection, channel>>,
                     preOpen |-> connection # 0 /\ is_open(connection),
                     closeRaised |-> FALSE, connected |-> Connected']

\* QueuePublisher.publish(message)
publish ==
    /\ UNCHANGED <<connection, channel, chanState, brokerUp, opens>>
    /\ IF publish_not_connected
       THEN /\ UNCHANGED <<connState, delivered>>
            /\ call' = [op |-> "publish",
                        ret |-> Raise("QueuePublisherError", "Not connected to RabbitMQ"),
                        send |-> FALSE, pre |-> <<connection, channel>>,
                        preOpen |-> connection # 0 /\ is_open(connection),
                        closeRaised |-> FALSE, connected |-> Connected']
       ELSE LET r == basic_publish_result IN
            /\ connState' = IF r = "AMQPConnectionError" /\ channel # 0
                            THEN [connState EXCEPT ![channel] = "closed"]
                            ELSE connState
            /\ delivered' = IF r = "ok" THEN delivered + 1 ELSE delivered
            /\ call' = [op |-> "publish", ret |-> publish_except(r),
                        send |-> channel # 0, pre |-> <<connection, channel>>,
                        preOpen |-> connection # 0 /\ is_open(connection),
                        closeRaised |-> FALSE, connected |-> Connected']

\* ------------------------------------------------------------ environment
\* The broker stops: it accepts no connection and the open ones lose their peer.
BrokerDown ==
    /\ brokerUp
    /\ brokerUp' = FALSE
    /\ connState' = [c \in ConnIds |->
                        IF connState[c] = "open" THEN "lost" ELSE connState[c]]
    /\ UNCHANGED <<connection, channel, chanState, delivered, call, opens,
                   calls, scope, svcVars, fnVars>>

BrokerUp ==
    /\ ~brokerUp
    /\ brokerUp' = TRUE
    /\ UNCHANGED <<connection, channel, connState, chanState, delivered, call, opens,
                   calls, scope, svcVars, fnVars>>

\* The broker closes one connection (heartbeat timeout, forced close); the
\* library has not noticed yet.
PeerDrop ==
    /\ \E c \in ConnIds :
          /\ connState[c] = "open"
          /\ connState' = [connState EXCEPT ![c] = "lost"]
    /\ UNCHANGED <<connection, channel, chanState, brokerUp, delivered, call, opens,
                   calls, scope, svcVars, fnVars>>

\* The library notices a lost connection: is_open turns False.
PeerCloseSeen ==
    /\ \E c \in ConnIds :
          /\ connState[c] = "lost"
          /\ connState' = [connState EXCEPT ![c] = "closed"]
    /\ UNCHANGED <<connection, channel, chanState, brokerUp, delivered, call, opens,
                   calls, scope, svcVars, fnVars>>

\* The broker closes a channel of an open connection.
ChannelClosedByBroker ==
    /\ \E c \in ConnIds :
          /\ connState[c] = "open" /\ chanState[c] = "open"
          /\ chanState' = [chanState EXCEPT ![c] = "closed"]
    /\ UNCHANGED <<connection, channel, connState, brokerUp, delivered, call, opens,
                   calls, scope, svcVars, fnVars>>

\* ------------------------------------------------------------ Python values
\* A value is a record tagged by its type. Numbers are held in units of
\* 1/10000 (v), so that 22.5 and -23.5505 are exact; a dict holds its items as
\* a function from keys (kv), an absent key being outside its domain.
None == [t |-> "none"]
PyInt(n) == [t |-> "int", v |-> n * 10000]
PyFloat(units) == [t |-> "float", v |-> units]
PyStr(x) == [t |-> "str", s |-> x]
PyList(xs) == [t |-> "list", items |-> xs]
PyDict(f) == [t |-> "dict", kv |-> f]
EmptyDict == PyDict(<<>>)

Ok(x) == [exc |-> "none", msg |-> "", val |-> x]
Err(kind, text) == [exc |-> kind, msg |-> text, val |-> None]

IsNumber(x) == x.t \in {"int", "float"}

\* float("nan"): a float that is not a number. Every comparison with it is
\* False; json.loads reads the literal NaN as it, json.dumps writes it back.
NaN == [t |-> "float", v |-> 0, nan |-> TRUE]
IsNaN(x) == x.t = "float" /\ "nan" \in DOMAIN x

\* x < n, n <= x and x <= n for a number x and an integer n (in units)
py_lt(x, n) == ~IsNaN(x) /\ x.v < n
py_ge(x, n) == ~IsNaN(x) /\ x.v >= n
py_le(x, n) == ~IsNaN(x) /\ x.v <= n

\* Mutant of PyGet: the default is dropped (obj.get(key)).
PyGet_without_default(obj, key, default) ==
    IF obj.t # "dict" THEN Err("AttributeError", "get")
    ELSE IF key \in DOMAIN obj.kv THEN Ok(obj.kv[key]) ELSE Ok(None)

\* obj.get(key, default): AttributeError unless obj is a dict
PyGet(obj, key, default) ==
    IF obj.t # "dict" THEN Err("AttributeError", "get")
    ELSE IF key \in DOMAIN obj.kv THEN Ok(obj.kv[key]) ELSE Ok(default)

\* The numeric literals among the strings the model uses: float("22.5"),
\* float("nan") and int("60") succeed, int("22.5"), int("nan") and
\* float("hot") raise ValueError.
StrFloatUnits(x) ==
    CASE x = "60" -> 600000 [] x = "22.5" -> 225000 [] OTHER -> -1
StrIsFloat(x) == x \in {"60", "22.5", "nan"}
StrIsInt(x) == x \in {"60"}

\* float(x)
py_float(x) ==
    CASE x.t = "float" -> Ok(x)
      [] x.t = "int" -> Ok(PyFloat(x.v))
      [] x.t = "str" -> IF x.s = "nan" THEN Ok(NaN)
                        ELSE IF StrIsFloat(x.s) THEN Ok(PyFloat(StrFloatUnits(x.s)))
                        ELSE Err("ValueError", "could not convert string to float")
      [] OTHER -> Err("TypeError", "float() argument")

\* int(x): truncation toward zero
py_int(x) ==
    CASE x.t = "int" -> Ok(x)
      [] IsNaN(x) -> Err("ValueError", "cannot convert float NaN to integer")
      [] x.t = "float" ->
            Ok([t |-> "int",
                v |-> IF x.v >= 0 THEN x.v - (x.v % 10000)
                      ELSE -((-x.v) - ((-x.v) % 10000))])
      [] x.t = "str" -> IF StrIsInt(x.s) THEN Ok([t |-> "int", v |-> StrFloatUnits(x.s)])
                        ELSE Err("ValueError", "invalid literal for int()")
      [] OTHER -> Err("TypeError", "int() argument")

\* Mutant of py_truthy: the test is `is not None` instead of truthiness.
py_truthy_is_not_None(x) == x.t # "none"

\* bool(x)
py_truthy(x) ==
    CASE x.t = "none" -> FALSE
      [] IsNumber(x)  -> IsNaN(x) \/ x.v # 0
      [] x.t = "str"  -> x.s # ""
      [] x.t = "list" -> Len(x.items) > 0
      [] x.t = "dict" -> DOMAIN x.kv # {}
      [] OTHER -> TRUE

\* Mutant of py_index0: the last element is taken (x[-1]).
py_index0_takes_last(x) ==
    CASE x.t = "list" -> IF Len(x.items) = 0 THEN Err("IndexError", "list index out of range")
                         ELSE Ok(x.items[Len(x.items)])
      [] x.t = "dict" -> Err("KeyError", "-1")
      [] OTHER -> Err("TypeError", "not subscriptable")

\* x[0] (a JSON object's keys are strings, so 0 is no key of a dict)
py_index0(x) ==
    CASE x.t = "list" -> IF Len(x.items) = 0 THEN Err("IndexError", "list index out of range")
                         ELSE Ok(x.items[1])
      [] x.t = "str"  -> Ok(PyStr(CASE x.s = "60" -> "6" [] x.s = "22.5" -> "2"
                                    [] x.s = "hot" -> "h" [] x.s = "nan" -> "n"
                                    [] OTHER -> x.s))
      [] x.t = "dict" -> Err("KeyError", "0")
      [] OTHER -> Err("TypeError", "not subscriptable")

\* ---------------------------------------------------------- api_client.py
\* code_map of _map_weather_code
code_map ==
    (0 :> "clear") @@ (1 :> "mainly_clear") @@ (2 :> "partly_cloudy") @@
    (3 :> "overcast") @@ (45 :> "fog") @@ (48 :> "fog") @@ (51 :> "drizzle") @@
    (53 :> "drizzle") @@ (55 :> "drizzle") @@ (56 :> "freezing_drizzle") @@
    (57 :> "freezing_drizzle") @@ (61 :> "rain") @@ (63 :> "rain") @@
    (65 :> "heavy_rain") @@ (66 :> "freezing_rain") @@ (67 :> "freezing_rain") @@
    (71 :> "snow") @@ (73 :> "snow") @@ (75 :> "heavy_snow") @@
    (77 :> "snow_grains") @@ (80 :> "rain_showers") @@ (81 :> "rain_showers") @@
    (82 :> "heavy_rain_showers") @@ (85 :> "snow_showers") @@
    (86 :> "heavy_snow_showers") @@ (95 :> "thunderstorm") @@
    (96 :> "thunderstorm_hail") @@ (99 :> "thunderstorm_hail")

\* Mutant of map_weather_code: code_map[code], without the default.
map_weather_code_without_default(code) ==
    IF IsNumber(code) /\ ~IsNaN(code) /\ code.v % 10000 = 0
          /\ (code.v \div 10000) \in DOMAIN code_map
    THEN Ok(PyStr(code_map[code.v \div 10000]))
    ELSE Err("KeyError", "code")

\* _map_weather_code(code): code_map.get(code, "unknown"); a number equal to
\* a key finds it whatever its type (61.0 == 61), a list or dict cannot be
\* hashed (TypeError).
map_weather_code(code) ==
    CASE IsNumber(code) ->
            IF ~IsNaN(code) /\ code.v % 10000 = 0
                  /\ (code.v \div 10000) \in DOMAIN code_map
            THEN Ok(PyStr(code_map[code.v \div 10000]))
            ELSE Ok(PyStr("unknown"))
      [] code.t \in {"list", "dict"} -> Err("TypeError", "unhashable type")
      [] OTHER -> Ok(PyStr("unknown"))

\* Mutant of extract_except: every exception of the try block, the
\* ValueErrors for a missing field included, is replaced by the general one.
extract_except_wraps_all(r) ==
    IF r.exc # "none" THEN Err("ValueError", "Failed to extract weather data") ELSE r

\* except (KeyError, TypeError, IndexError) as e: raise ValueError(...) from e
extract_except(r) ==
    IF r.exc \in {"KeyError", "TypeError", "IndexError"}
    THEN Err("ValueError", "Failed to extract weather data")
    ELSE r

\* The body of extract_weather_data's try block.
extract_body(api_response_) ==
    LET cur == PyGet(api_response_, "current", EmptyDict)
        hou == PyGet(api_response_, "hourly", EmptyDict)
    IN
    IF cur.exc # "none" THEN cur ELSE
    LET current == cur.val
        hourly == hou.val
        temperature == PyGet(current, "temperature_2m", None)
        humidity == PyGet(current, "relative_humidity_2m", None)
        wind_speed == PyGet(current, "wind_speed_10m", None)
        weather_code == PyGet(current, "weather_code", PyInt(0))
    IN
    IF temperature.exc # "none" THEN temperature ELSE
    IF temperature.val.t = "none"
    THEN Err("ValueError", "Missing temperature_2m in response") ELSE
    IF humidity.val.t = "none"
    THEN Err("ValueError", "Missing relative_humidity_2m in response") ELSE
    IF wind_speed.val.t = "none"
    THEN Err("ValueError", "Missing wind_speed_10m in response") ELSE
    LET condition == map_weather_code(weather_code.val) IN
    IF condition.exc # "none" THEN condition ELSE
    LET probs == PyGet(hourly, "precipitation_probability", PyList(<<>>)) IN
    IF probs.exc # "none" THEN probs ELSE
    LET rain_probability == IF py_truthy(probs.val) THEN py_index0(probs.val)
                            ELSE Ok(PyInt(0))
    IN
    IF rain_probability.exc # "none" THEN rain_probability ELSE
    LET t == py_float(temperature.val)
        h == py_int(humidity.val)
        w == py_float(wind_speed.val)
        r == py_int(rain_probability.val)
    IN
    IF t.exc # "none" THEN t ELSE
    IF h.exc # "none" THEN h ELSE
    IF w.exc # "none" THEN w ELSE
    IF r.exc # "none" THEN r ELSE
    Ok(PyDict([temperature |-> t.val, humidity |-> h.val, wind_speed |-> w.val,
               condition |-> condition.val, rain_probability |-> r.val]))

\* extract_weather_data(api_response)
extract_weather_data(api_response_) == extract_except(extract_body(api_response_))

\* ------------------------------------------------------------ normalizer.py
required_fields == <<"temperature", "humidity", "wind_speed", "condition",
                     "rain_probability">>

\* The first required field absent from the reading, "" when none is.
FirstMissing(d, fields) ==
    LET missing == {i \in 1..Len(fields) : fields[i] \notin DOMAIN d.kv} IN
    IF missing = {} THEN ""
    ELSE fields[CHOOSE i \in missing : \A j \in missing : i <= j]

\* Mutant of InRange0to100: the lower bound is not tested.
InRange0to100_no_lower_bound(x) == py_le(x, 100 * 10000)

\* 0 <= x <= 100
InRange0to100(x) == py_ge(x, 0) /\ py_le(x, 100 * 10000)

\* datetime.now(timezone.utc).isoformat(): an ISO-8601 text with the offset
Timestamp == PyStr("2025-01-01T12:00:00+00:00")

\* normalize_weather_data(weather_data, city, latitude, longitude, source)
normalize_weather_data(weather_data_, city, latitude, longitude, source) ==
    LET miss == FirstMissing(weather_data_, required_fields) IN
    IF miss # "" THEN Err("ValueError", "Missing required field: " \o miss) ELSE
    LET temperature == weather_data_.kv["temperature"]
        humidity == weather_data_.kv["humidity"]
        wind_speed == weather_data_.kv["wind_speed"]
        condition == weather_data_.kv["condition"]
        rain_probability == weather_data_.kv["rain_probability"]
    IN
    IF ~IsNumber(temperature) THEN Err("ValueError", "Invalid temperature type") ELSE
    IF ~IsNumber(humidity) \/ ~InRange0to100(humidity)
    THEN Err("ValueError", "Invalid humidity value") ELSE
    IF ~IsNumber(wind_speed) \/ py_lt(wind_speed, 0)
    THEN Err("ValueError", "Invalid wind_speed value") ELSE
    IF condition.t # "str" \/ condition.s = ""
    THEN Err("ValueError", "Invalid condition value") ELSE
    IF ~IsNumber(rain_probability) \/ ~InRange0to100(rain_probability)
    THEN Err("ValueError", "Invalid rain_probability value") ELSE
    IF py_float(latitude).exc # "none" THEN py_float(latitude) ELSE
    IF py_float(longitude).exc # "none" THEN py_float(longitude) ELSE
    Ok(PyDict([timestamp |-> Timestamp,
               location |-> PyDict([city |-> city,
                                    latitude |-> py_float(latitude).val,
                                    longitude |-> py_float(longitude).val]),
               weather |-> PyDict([temperature |-> py_float(temperature).val,
                                   humidity |-> py_int(humidity).val,
                                   wind_speed |-> py_float(wind_speed).val,
                                   condition |-> condition,
                                   rain_probability |-> py_int(rain_probability).val]),
               source |-> source]))

\* to_json(data): json.dumps(data); every value of the model is serializable.
\* The text is held as the document it encodes.
to_json(data) == Ok([t |-> "str", s |-> "json", doc |-> data])

\* True
PyTrue == [t |-> "bool", b |-> TRUE]

\* The first of `fields` that is not a key of dict d, "" when all are.
\* (FirstMissing, on the lists of validate_normalized_structure.)
required_top_level == <<"timestamp", "location", "weather", "source">>
location_fields == <<"city", "latitude", "longitude">>

\* Mutant of weather_fields: the validator asks for the camelCase keys while
\* normalize_weather_data goes on writing snake_case ones.
weather_fields_camelCase == <<"temperature", "humidity", "windSpeed", "condition",
                              "rainProbability">>

\* weather_fields of validate_normalized_structure
weather_fields == <<"temperature", "humidity", "wind_speed", "condition",
                    "rain_probability">>

\* The texts datetime.fromisoformat parses, among those the model uses
\* (after .replace("Z", "+00:00")).
IsoTexts == {"2025-01-01T12:00:00+00:00", "2025-12-03T14:30:00+00:00",
             "2025-12-03T14:30:00Z"}

\* datetime.fromisoformat(data["timestamp"].replace("Z", "+00:00")) in
\* try / except (ValueError, AttributeError): a value that is not a str has
\* no replace (AttributeError, or TypeError for a value fromisoformat is
\* handed), a text that is no ISO date raises ValueError.
timestamp_check(ts) ==
    CASE ts.t = "str" -> IF ts.s \in IsoTexts THEN NoExc
                         ELSE Raise("ValueError", "Invalid timestamp format")
      [] OTHER -> Raise("ValueError", "Invalid timestamp format")

\* validate_normalized_structure(data), data a dict
validate_normalized_structure(data) ==
    LET missTop == FirstMissing(data, required_top_level) IN
    IF missTop # "" THEN Err("ValueError", "Missing top-level field: " \o missTop) ELSE
    LET location == data.kv["location"]
        weather == data.kv["weather"]
    IN
    IF location.t # "dict" THEN Err("ValueError", "location must be a dictionary") ELSE
    LET missLoc == FirstMissing(location, location_fields) IN
    IF missLoc # "" THEN Err("ValueError", "Missing location field: " \o missLoc) ELSE
    IF weather.t # "dict" THEN Err("ValueError", "weather must be a dictionary") ELSE
    LET missW == FirstMissing(weather, weather_fields) IN
    IF missW # "" THEN Err("ValueError", "Missing weather field: " \o missW) ELSE
    LET ts == timestamp_check(data.kv["timestamp"]) IN
    IF ts.exc # "none" THEN Err(ts.exc, ts.msg) ELSE
    Ok(PyTrue)

\* ------------------------------------------------------------------ config.py
location_lat == PyFloat(-235505)
location_lon == PyFloat(-466333)
location_city == PyStr("Sao Paulo")
default_source == PyStr("open-meteo")

\* A publisher on which nothing was called yet, and an unset local.
NoCall == [op |-> "none", ret |-> NoExc, send |-> FALSE, pre |-> <<0, 0>>,
           preOpen |-> FALSE, closeRaised |-> FALSE, connected |-> FALSE]
Null == [t |-> "null"]

\* ------------------------------------------------------- provider payloads
Current(t, h, w, code) ==
    PyDict([temperature_2m |-> t, relative_humidity_2m |-> h,
            wind_speed_10m |-> w, weather_code |-> code])
Hourly(probs) == PyDict([precipitation_probability |-> probs])
Payload(cur, hou) == PyDict([current |-> cur, hourly |-> hou])

\* 22.0 degrees, 70 %, 8.5 km/h, code 61, probabilities [80, 75, 70]
PayloadRain ==
    Payload(Current(PyFloat(220000), PyInt(70), PyFloat(85000), PyInt(61)),
            Hourly(PyList(<<PyInt(80), PyInt(75), PyInt(70)>>)))
\* a valid reading without the hourly section
PayloadNoHourly ==
    PyDict([current |-> Current(PyFloat(255000), PyInt(60), PyFloat(150000), PyInt(2))])
\* {"current": {}, "hourly": {}}
PayloadEmpty == Payload(EmptyDict, EmptyDict)
\* relative_humidity_2m = 150
PayloadHumidity150 ==
    Payload(Current(PyFloat(220000), PyInt(150), PyFloat(85000), PyInt(0)),
            Hourly(PyList(<<PyInt(20)>>)))
\* {"current": null}
PayloadNullCurrent == PyDict([current |-> None])
\* wind_speed_10m = -5
PayloadWindNegative ==
    Payload(Current(PyFloat(220000), PyInt(70), PyInt(-5), PyInt(61)),
            Hourly(PyList(<<PyInt(80)>>)))
\* wind_speed_10m = NaN (the literal, which response.json() accepts)
PayloadWindNaN ==
    Payload(Current(PyFloat(220000), PyInt(70), NaN, PyInt(61)),
            Hourly(PyList(<<PyInt(80)>>)))

ValidPayloads == {PayloadRain, PayloadNoHourly}
Payloads == ValidPayloads \cup {PayloadEmpty, PayloadHumidity150, PayloadNullCurrent,
                                PayloadWindNegative, PayloadWindNaN}

\* What self.session.get(...) gives back: an exception it raised, or a
\* response with a status code and a body. Unparsable is a body that is not
\* JSON (an empty body included).
Unparsable == [t |-> "unparsable"]
Raised(kind) == [raised |-> kind, status_code |-> 0, body |-> Null]
Response(status, body) == [raised |-> "none", status_code |-> status, body |-> body]

\* Exceptions of session.get: the three requests classes the code names, and
\* one of no expected class.
FetchFailures == {"Timeout", "ConnectionError", "RequestException", "RuntimeError"}

\* Status codes of a final response: 200 and 204; 300 (a 3xx the library
\* does not follow, having no Location to go to); 400; 500.
StatusCodes == {200, 204, 300, 400, 500}

Responses ==
    {Raised(k) : k \in FetchFailures}
    \cup {Response(200, b) : b \in Payloads \cup {Unparsable}}
    \cup {Response(c, b) : c \in StatusCodes \ {200}, b \in {PayloadRain, Unparsable}}

\* response.raise_for_status(): HTTPError for 4xx and 5xx, nothing otherwise
raise_for_status(r) ==
    IF 400 <= r.status_code /\ r.status_code < 600
    THEN Err("HTTPError", "") ELSE Ok(None)

\* response.json(): the library's JSONDecodeError, a RequestException and a
\* ValueError at once, for a body that does not parse
response_json(r) ==
    IF r.body = Unparsable THEN Err("JSONDecodeError", "") ELSE Ok(r.body)

\* fetch_weather's except clauses, in their order: the first that matches
fetch_except(kind) ==
    IF kind \in {"Timeout", "ConnectionError", "HTTPError", "RequestException",
                 "JSONDecodeError", "ValueError"}
    THEN Err("WeatherAPIError", kind)
    ELSE Err(kind, "")

\* The try block of fetch_weather, session.get having given r
fetch_try(r) ==
    IF r.raised # "none" THEN Err(r.raised, "")
    ELSE LET s == raise_for_status(r) IN
         IF s.exc # "none" THEN s ELSE response_json(r)

\* WeatherAPIClient.fetch_weather, session.get having given r
fetch_weather(r) ==
    LET t == fetch_try(r) IN
    IF t.exc = "none" THEN t ELSE fetch_except(t.exc)

\* --------------------------------------------------------- WeatherCollector
Stages == {"fetch", "extract", "normalize", "serialize", "publish"}

\* The record of a cycle: its result ("running", "True", "False", "raised"),
\* the stage that failed and with what, the payload fetched, the publisher's
\* fields when it began, how often publisher.publish and basic_publish were
\* invoked, and whether the broker was up when publish was called; whether
\* the stages started, in order (ran), the calls of session.get (fetches)
\* and the calls of basic_publish that returned (completed); whether the
\* publisher was Connected and how many connections it had opened, at the
\* start and at the end;
\* another cycle was still running when it began (overlapped), and whether
\* the scheduler skipped a tick because of it (tickSkipped); the document of
\* the message the broker accepted (published).
NewCycle == [result |-> "running", failed |-> "none", exc |-> "none", msg |-> "",
             published |-> Null,
             overlapped |-> stage # "idle", tickSkipped |-> FALSE,
             payload |-> Null, pubAtStart |-> <<connection, channel>>,
             pubAtEnd |-> <<connection, channel>>, deliveredAtStart |-> delivered,
             publishCalls |-> 0, sends |-> 0, brokerUpAtPublish |-> FALSE,
             accepting |-> FALSE,
             ran |-> <<>>, fetches |-> 0, completed |-> 0,
             connectedAtStart |-> Connected, connectedAtEnd |-> Connected,
             opensAtStart |-> opens, opensAtEnd |-> opens]

\* The broker would take a message from this publisher now: its connection
\* and channel are set and open.
Accepting ==
    /\ connection # 0 /\ channel # 0
    /\ connState[connection] = "open"
    /\ connState[channel] = "open" /\ chanState[channel] = "open"

\* Mutant of collect_except: the last clause, except Exception, is missing.
collect_except_no_catch_all(kind) ==
    IF kind \in {"WeatherAPIError", "QueuePublisherError", "ValueError"}
    THEN "False" ELSE "raised"

\* The except clauses of collect_and_publish: what the cycle returns when a
\* stage raised `kind` ("raised": the exception leaves collect_and_publish).
collect_except(kind) ==
    CASE kind = "WeatherAPIError" -> "False"
      [] kind = "QueuePublisherError" -> "False"
      [] kind = "ValueError" -> "False"
      [] OTHER -> "False"

\* Mutant of AfterCycle: a failed cycle ends the service.
AfterCycle_exit_on_failure(result) ==
    IF result = "True"
    THEN (IF pc = "first_cycle" THEN "schedule" ELSE pc)
    ELSE "crashed"

\* Where control goes when the cycle ends with `result`: the first cycle is a
\* call of start(), which an escaping exception leaves; a scheduled cycle is
\* a job, whose exception the scheduler logs.
AfterCycle(result) ==
    CASE pc = "first_cycle" -> IF result = "raised" THEN "crashed" ELSE "schedule"
      [] OTHER -> pc

\* Mutant of CycleFails: the failure is logged inside the stage and the
\* cycle goes on to publish.
CycleFails_goes_on(at, e, rec) ==
    /\ outcome' = [rec EXCEPT !.failed = at, !.exc = e.exc, !.msg = e.msg]
    /\ stage' = IF at = "publish" THEN "idle" ELSE "publish"
    /\ UNCHANGED <<pc, api_response, weather_data, normalized, message>>

\* A stage raised e: the except clauses, the return, the locals dropped.
CycleFails(at, e, rec) ==
    /\ outcome' = [rec EXCEPT !.result = collect_except(e.exc), !.failed = at,
                              !.exc = e.exc, !.msg = e.msg,
                              !.pubAtEnd = <<connection', channel'>>,
                              !.connectedAtEnd = Connected',
                              !.opensAtEnd = opens',
                              !.accepting = Accepting]
    /\ pc' = AfterCycle(collect_except(e.exc))
    /\ stage' = "idle"
    /\ api_response' = Null
    /\ weather_data' = Null
    /\ normalized' = Null
    /\ message' = Null

\* collect_and_publish is entered.
CycleBegins ==
    /\ cycleNo < MaxCycles
    /\ stage' = "fetch"
    /\ cycleNo' = cycleNo + 1
    /\ prev' = outcome
    /\ outcome' = NewCycle
    /\ UNCHANGED <<connection, channel, connState, chanState, brokerUp, delivered,
                   opens, call, calls, scope, api_response, weather_data, normalized,
                   message, startup, shutdown, fnVars>>

\* No termination signal was received.
NoSignal == [signal |-> "none", at |-> "none", inflight |-> "none", cycleNo |-> 0,
             handler |-> "none"]

\* QueuePublisher.__init__ and WeatherCollector.__init__
InitService ==
    /\ connection = 0
    /\ channel = 0
    /\ connState = [c \in ConnIds |-> "unopened"]
    /\ chanState = [c \in ConnIds |-> "none"]
    /\ brokerUp \in BOOLEAN
    /\ delivered = 0
    /\ opens = 0
    /\ call = NoCall
    /\ calls = 0
    /\ scope = "none"
    /\ pc = "start"
    /\ stage = "idle"
    /\ cycleNo = 0
    /\ api_response = Null
    /\ weather_data = Null
    /\ normalized = Null
    /\ message = Null
    /\ outcome = [NewCycle EXCEPT !.result = "none"]
    /\ prev = [NewCycle EXCEPT !.result = "none"]
    /\ startup = [connect |-> "not called"]
    /\ shutdown = NoSignal

\* The service, no function being applied on its own.
Init ==
    /\ InitService
    /\ fn = "none"
    /\ arg = Null
    /\ ret = Null

\* start(): self.publisher.connect() in try / except QueuePublisherError
StartConnect ==
    /\ pc = "start"
    /\ \E path \in ConnectPaths : connect(path)
    /\ startup' = [connect |-> call'.ret.exc]
    /\ pc' = IF call'.ret.exc \in {"none", "QueuePublisherError"}
             THEN "first_cycle" ELSE "crashed"
    /\ UNCHANGED <<calls, scope, stage, cycleNo, api_response, weather_data,
                   normalized, message, outcome, prev, shutdown, fnVars>>

\* start(): self.collect_and_publish(), run at once
FirstCycle ==
    /\ pc = "first_cycle"
    /\ stage = "idle"
    /\ CycleBegins
    /\ UNCHANGED pc

\* start(): add_job, the signal handlers, _running = True, scheduler.start()
StartScheduler ==
    /\ pc = "schedule"
    /\ pc' = "running"
    /\ UNCHANGED <<connection, channel, connState, chanState, brokerUp, delivered,
                   opens, call, calls, scope, stage, cycleNo, api_response, weather_data,
                   normalized, message, outcome, prev, startup, shutdown, fnVars>>

\* Mutant of max_instances: the job is added with max_instances=2.
max_instances_two == 1 + 1

\* add_job(...) names no max_instances: the scheduler's default holds, one
\* running instance of the job at a time.
max_instances == 1

\* The instances of the job running in the scheduler's executor (the first
\* cycle is a call of start(), not a job).
running_instances == IF stage # "idle" /\ pc # "first_cycle" THEN 1 ELSE 0

\* The interval trigger fires and the executor starts the job in a worker
\* thread, unless max_instances of it are running.
Tick ==
    /\ pc = "running"
    /\ running_instances < max_instances
    /\ CycleBegins
    /\ UNCHANGED pc

\* The interval trigger fires while max_instances of the job are running:
\* the executor refuses the run and the scheduler logs that it was skipped.
TickSkipped ==
    /\ pc = "running"
    /\ running_instances >= max_instances
    /\ ~outcome.tickSkipped
    /\ outcome' = [outcome EXCEPT !.tickSkipped = TRUE]
    /\ UNCHANGED <<connection, channel, connState, chanState, brokerUp, delivered,
                   opens, call, calls, scope, pc, stage, cycleNo, api_response,
                   weather_data, normalized, message, prev, startup, shutdown, fnVars>>

\* Mutant of Fetch: a failed request is tried once more within the cycle.
Fetch_retries ==
    /\ stage = "fetch"
    /\ UNCHANGED <<connection, channel, connState, chanState, brokerUp, delivered,
                   opens, call, calls, scope, cycleNo, prev, startup, shutdown, fnVars>>
    /\ \E resp \in Responses :
          LET r == fetch_weather(resp)
              rec == [outcome EXCEPT !.ran = IF @ = <<>> THEN <<"fetch">> ELSE @,
                                     !.fetches = @ + 1] IN
          IF r.exc = "none"
          THEN /\ api_response' = r.val
               /\ outcome' = [rec EXCEPT !.payload = r.val]
               /\ stage' = "extract"
               /\ UNCHANGED <<pc, weather_data, normalized, message>>
          ELSE IF outcome.fetches = 0
               THEN /\ outcome' = rec
                    /\ UNCHANGED <<pc, stage, api_response, weather_data, normalized,
                                   message>>
               ELSE CycleFails("fetch", r, rec)

\* api_response = self.api_client.fetch_weather(...)
Fetch ==
    /\ stage = "fetch"
    /\ UNCHANGED <<connection, channel, connState, chanState, brokerUp, delivered,
                   opens, call, calls, scope, cycleNo, prev, startup, shutdown, fnVars>>
    /\ \E resp \in Responses :
          LET r == fetch_weather(resp)
              rec == [outcome EXCEPT !.ran = Append(@, "fetch"),
                                     !.fetches = @ + 1] IN
          IF r.exc = "none"
          THEN /\ api_response' = r.val
               /\ outcome' = [rec EXCEPT !.payload = r.val]
               /\ stage' = "extract"
               /\ UNCHANGED <<pc, weather_data, normalized, message>>
          ELSE CycleFails("fetch", r, rec)

\* weather_data = extract_weather_data(api_response)
Extract ==
    /\ stage = "extract"
    /\ UNCHANGED <<connection, channel, connState, chanState, brokerUp, delivered,
                   opens, call, calls, scope, cycleNo, prev, startup, shutdown, fnVars>>
    /\ LET r == extract_weather_data(api_response)
           rec == [outcome EXCEPT !.ran = Append(@, "extract")] IN
       IF r.exc = "none"
       THEN /\ weather_data' = r.val
            /\ stage' = "normalize"
            /\ outcome' = rec
            /\ UNCHANGED <<pc, api_response, normalized, message>>
       ELSE CycleFails("extract", r, rec)

\* normalized = normalize_weather_data(weather_data, city, latitude, longitude)
Normalize ==
    /\ stage = "normalize"
    /\ UNCHANGED <<connection, channel, connState, chanState, brokerUp, delivered,
                   opens, call, calls, scope, cycleNo, prev, startup, shutdown, fnVars>>
    /\ LET r == normalize_weather_data(weather_data, location_city, location_lat,
                                       location_lon, default_source)
           rec == [outcome EXCEPT !.ran = Append(@, "normalize")] IN
       IF r.exc = "none"
       THEN /\ normalized' = r.val
            /\ stage' = "serialize"
            /\ outcome' = rec
            /\ UNCHANGED <<pc, api_response, weather_data, message>>
       ELSE CycleFails("normalize", r, rec)

\* message = to_json(normalized)
Serialize ==
    /\ stage = "serialize"
    /\ UNCHANGED <<connection, channel, connState, chanState, brokerUp, delivered,
                   opens, call, calls, scope, cycleNo, prev, startup, shutdown, fnVars>>
    /\ LET r == to_json(normalized)
           rec == [outcome EXCEPT !.ran = Append(@, "serialize")] IN
       IF r.exc = "none"
       THEN /\ message' = r.val
            /\ stage' = "publish"
            /\ outcome' = rec
            /\ UNCHANGED <<pc, api_response, weather_data, normalized>>
       ELSE CycleFails("serialize", r, rec)

\* Mutant of Publish: what publisher.publish raises is swallowed and the
\* cycle returns True.
Publish_ignores_exception ==
    /\ stage = "publish"
    /\ publish
    /\ outcome' = [outcome EXCEPT !.ran = Append(@, "publish"),
                                  !.publishCalls = @ + 1,
                                  !.sends = IF call'.send THEN @ + 1 ELSE @,
                                  !.completed = IF delivered' > delivered THEN @ + 1 ELSE @,
                                  !.brokerUpAtPublish = brokerUp,
                                  !.result = "True",
                                  !.published = message.doc,
                                  !.pubAtEnd = <<connection', channel'>>,
                                  !.connectedAtEnd = Connected',
                                  !.opensAtEnd = opens',
                                  !.accepting = Accepting]
    /\ pc' = AfterCycle("True")
    /\ stage' = "idle"
    /\ api_response' = Null
    /\ weather_data' = Null
    /\ normalized' = Null
    /\ message' = Null
    /\ UNCHANGED <<calls, scope, cycleNo, prev, startup, shutdown, fnVars>>

\* self.publisher.publish(message); return True
Publish ==
    /\ stage = "publish"
    /\ publish
    /\ LET rec == [outcome EXCEPT !.ran = Append(@, "publish"),
                                  !.publishCalls = @ + 1,
                                  !.sends = IF call'.send THEN @ + 1 ELSE @,
                                  !.completed = IF delivered' > delivered THEN @ + 1 ELSE @,
                                  !.brokerUpAtPublish = brokerUp] IN
       IF call'.ret.exc = "none"
       THEN /\ outcome' = [rec EXCEPT !.result = "True",
                                       !.published = message.doc,
                                       !.pubAtEnd = <<connection', channel'>>,
                                       !.connectedAtEnd = Connected',
                                       !.opensAtEnd = opens',
                                       !.accepting = Accepting]
            /\ pc' = AfterCycle("True")
            /\ stage' = "idle"
            /\ api_response' = Null
            /\ weather_data' = Null
            /\ normalized' = Null
            /\ message' = Null
       ELSE CycleFails("publish", call'.ret, rec)
    /\ UNCHANGED <<calls, scope, cycleNo, prev, startup, shutdown, fnVars>>

Next ==
    \/ StartConnect
    \/ FirstCycle
    \/ StartScheduler
    \/ Tick
    \/ TickSkipped
    \/ Fetch
    \/ Extract
    \/ Normalize
    \/ Serialize
    \/ Publish
    \/ BrokerDown
    \/ BrokerUp
    \/ PeerDrop
    \/ PeerCloseSeen
    \/ ChannelClosedByBroker

Spec == Init /\ [][Next]_vars

\* ------------------------------------------------------ termination signals
Signals == {"SIGINT", "SIGTERM"}

\* A signal arrives before start() has installed its handlers (lines 116-117
\* come after the connect and the first cycle): the interpreter's defaults
\* apply. SIGTERM ends the process at once; SIGINT raises KeyboardInterrupt in
\* the main thread, which no except clause of start(), connect() or
\* collect_and_publish() catches (it is not an Exception), so it leaves
\* start(). Neither path calls stop().
SignalDefault ==
    /\ pc \in {"start", "first_cycle", "schedule"}
    /\ shutdown.signal = "none"
    /\ \E sig \in Signals :
          /\ shutdown' = [signal |-> sig, at |-> pc, inflight |-> stage,
                          cycleNo |-> cycleNo, handler |-> "default"]
          /\ pc' = IF sig = "SIGTERM" THEN "killed" ELSE "interrupted"
    /\ outcome' = IF stage # "idle" THEN [outcome EXCEPT !.result = "interrupted"]
                  ELSE outcome
    /\ stage' = "idle"
    /\ api_response' = Null
    /\ weather_data' = Null
    /\ normalized' = Null
    /\ message' = Null
    /\ UNCHANGED <<connection, channel, connState, chanState, brokerUp, delivered,
                   opens, call, calls, scope, cycleNo, prev, startup, fnVars>>

\* A signal arrives while the main thread is in scheduler.start():
\* _signal_handler runs there. stop(): _running = False,
\* scheduler.shutdown(wait=False), publisher.disconnect(); then sys.exit(0)
\* raises SystemExit. A job running in a worker thread is not waited for.
SignalHandler ==
    /\ pc = "running"
    /\ shutdown.signal = "none"
    /\ \E closeRaised \in BOOLEAN : disconnect(closeRaised)
    /\ \E sig \in Signals :
          shutdown' = [signal |-> sig, at |-> pc, inflight |-> stage,
                       cycleNo |-> cycleNo, handler |-> "_signal_handler"]
    /\ pc' = "exiting"
    /\ UNCHANGED <<calls, scope, stage, cycleNo, api_response, weather_data,
                   normalized, message, outcome, prev, startup, fnVars>>

\* start(): except (KeyboardInterrupt, SystemExit): self.stop(). The
\* scheduler is no longer running; disconnect() is called once more and
\* start() returns.
StopAfterExit ==
    /\ pc = "exiting"
    /\ \E closeRaised \in BOOLEAN : disconnect(closeRaised)
    /\ pc' = "stopped"
    /\ UNCHANGED <<calls, scope, stage, cycleNo, api_response, weather_data,
                   normalized, message, outcome, prev, startup, shutdown, fnVars>>

NextSig ==
    \/ StartConnect
    \/ FirstCycle
    \/ StartScheduler
    \/ Tick
    \/ TickSkipped
    \/ Fetch
    \/ Extract
    \/ Normalize
    \/ Serialize
    \/ Publish
    \/ SignalDefault
    \/ SignalHandler
    \/ StopAfterExit
    \/ BrokerDown
    \/ BrokerUp
    \/ PeerDrop
    \/ PeerCloseSeen
    \/ ChannelClosedByBroker

SpecSig == Init /\ [][NextSig]_vars

\* ------------------------------------------- any sequence of publisher calls
CallConnect ==
    /\ calls < MaxCalls
    /\ \E path \in ConnectPaths : connect(path)
    /\ calls' = calls + 1
    /\ UNCHANGED <<scope, svcVars, fnVars>>

CallPublish ==
    /\ calls < MaxCalls
    /\ publish
    /\ calls' = calls + 1
    /\ UNCHANGED <<scope, svcVars, fnVars>>

CallDisconnect ==
    /\ calls < MaxCalls
    /\ \E closeRaised \in BOOLEAN : disconnect(closeRaised)
    /\ calls' = calls + 1
    /\ UNCHANGED <<scope, svcVars, fnVars>>

NextPub ==
    \/ CallConnect
    \/ CallPublish
    \/ CallDisconnect
    \/ BrokerDown
    \/ BrokerUp
    \/ PeerDrop
    \/ PeerCloseSeen
    \/ ChannelClosedByBroker

SpecPub == Init /\ [][NextPub]_vars

\* ------------------------------- scoped use: with QueuePublisher(...) as p
\* __enter__: self.connect(); return self. When connect() raises, the with
\* statement is left at once and __exit__ is not called.
ScopeEnter ==
    /\ scope = "none"
    /\ \E path \in ConnectPaths : connect(path)
    /\ scope' = IF call'.ret.exc = "none" THEN "body" ELSE "enter_raised"
    /\ UNCHANGED <<calls, svcVars, fnVars>>

\* The body of publish_weather_message: return publisher.publish(message)
ScopeBodyPublish ==
    /\ scope = "body"
    /\ publish
    /\ scope' = IF call'.ret.exc = "none" THEN "exit_normal" ELSE "exit_raised"
    /\ UNCHANGED <<calls, svcVars, fnVars>>

\* A body that does nothing (pass)
ScopeBodyPass ==
    /\ scope = "body"
    /\ scope' = "exit_normal"
    /\ UNCHANGED <<connection, channel, connState, chanState, brokerUp, delivered,
                   opens, call, calls, svcVars, fnVars>>

\* __exit__: self.disconnect(); return False
ScopeExit ==
    /\ scope \in {"exit_normal", "exit_raised"}
    /\ \E closeRaised \in BOOLEAN : disconnect(closeRaised)
    /\ scope' = IF scope = "exit_normal" THEN "done_normal" ELSE "done_raised"
    /\ UNCHANGED <<calls, svcVars, fnVars>>

\* The next call of publish_weather_message constructs a new QueuePublisher;
\* nothing refers to the old one any more.
ScopeNew ==
    /\ scope \in {"done_normal", "done_raised", "enter_raised"}
    /\ opens < MaxConns
    /\ connection' = 0
    /\ channel' = 0
    /\ call' = NoCall
    /\ scope' = "none"
    /\ UNCHANGED <<connState, chanState, brokerUp, delivered, opens, calls, svcVars, fnVars>>

NextScope ==
    \/ ScopeEnter
    \/ ScopeBodyPublish
    \/ ScopeBodyPass
    \/ ScopeExit
    \/ ScopeNew
    \/ BrokerDown
    \/ BrokerUp
    \/ PeerDrop
    \/ PeerCloseSeen
    \/ ChannelClosedByBroker

SpecScope == Init /\ [][NextScope]_vars

\* --------------------- the functions of normalizer.py and api_client.py
\* applied on their own, to arguments drawn from small sets.

\* A key left out of a dict under construction.
Absent == [t |-> "absent"]

\* The dict of the items of f whose value is not Absent.
MkDict(f) == PyDict([k \in {j \in DOMAIN f : f[j] # Absent} |-> f[k]])

\* Readings: every field absent, well-formed, of the wrong type, or out of
\* range.
Temperatures == {PyFloat(225000), PyInt(-3), NaN, PyStr("hot"), None, Absent}
Humidities == {PyInt(0), PyInt(100), PyInt(150), PyInt(-1), PyFloat(505000), NaN,
               PyStr("60"), Absent}
WindSpeeds == {PyInt(0), PyFloat(85000), PyInt(-5), NaN, PyStr("22.5"), Absent}
Conditions == {PyStr("rain"), PyStr(""), PyInt(5), None, Absent}
RainProbabilities == {PyInt(0), PyInt(80), PyFloat(1000000), PyInt(101), PyFloat(-1),
                      Absent}
Readings ==
    {MkDict([temperature |-> t, humidity |-> h, wind_speed |-> w, condition |-> c,
             rain_probability |-> r]) :
        t \in Temperatures, h \in Humidities, w \in WindSpeeds, c \in Conditions,
        r \in RainProbabilities}

Cities == {PyStr("Test City")}
Latitudes == {PyInt(0), PyFloat(-235505)}
Longitudes == {PyInt(0)}

NormalizeArgs ==
    {[f |-> "normalize", weather_data |-> rd, city |-> c, latitude |-> la,
      longitude |-> lo] :
        rd \in Readings, c \in Cities, la \in Latitudes, lo \in Longitudes}

\* Messages handed to validate_normalized_structure: any of the weather keys
\* in either spelling present or not, the timestamp well-formed or not, the
\* location whole, short of a key, or no dict.
Present(x) == {x, Absent}
WeatherSections ==
    {MkDict([temperature |-> t, humidity |-> h, windSpeed |-> wc, wind_speed |-> ws,
             condition |-> c, rainProbability |-> rc, rain_probability |-> rs]) :
        t \in Present(PyFloat(250000)), h \in Present(PyInt(60)),
        wc \in Present(PyFloat(150000)), ws \in Present(PyFloat(150000)),
        c \in Present(PyStr("clear")), rc \in Present(PyInt(30)),
        rs \in Present(PyInt(30))}
LocationSections ==
    {PyDict([city |-> PyStr("Test"), latitude |-> PyFloat(0), longitude |-> PyFloat(0)]),
     PyDict([city |-> PyStr("Test"), latitude |-> PyFloat(0)]),
     PyStr("Test")}
Timestamps == {PyStr("2025-12-03T14:30:00+00:00"), PyStr("2025-12-03T14:30:00Z"),
               PyStr("not-a-date"), PyInt(0), Absent}
Messages ==
    {MkDict([timestamp |-> ts, location |-> l, weather |-> w, source |-> src]) :
        ts \in Timestamps, l \in LocationSections, w \in WeatherSections,
        src \in Present(PyStr("open-meteo"))}
ValidateArgs == {[f |-> "validate", data |-> m] : m \in Messages}

\* Provider payloads handed to extract_weather_data: every field of the
\* current section present, null or absent; the current and hourly sections
\* themselves present, null or absent.
CurrentSections ==
    {MkDict([temperature_2m |-> t, relative_humidity_2m |-> h, wind_speed_10m |-> w,
             weather_code |-> c]) :
        t \in {PyFloat(220000), PyInt(-3), PyStr("hot"), None, Absent},
        h \in {PyInt(70), PyInt(150), PyFloat(705000), None, Absent},
        w \in {PyFloat(85000), NaN, None, Absent},
        c \in {PyInt(61), PyInt(999), PyList(<<>>), Absent}}
        \cup {None, Absent}
HourlySections ==
    {Hourly(PyList(<<PyInt(80), PyInt(75), PyInt(70)>>)),
     Hourly(PyList(<<PyInt(45), PyInt(100)>>)), Hourly(PyList(<<None>>)),
     Hourly(PyList(<<>>)), EmptyDict, PyList(<<>>), None, Absent}
ExtractArgs ==
    {[f |-> "extract", api_response |-> MkDict([current |-> c, hourly |-> h])] :
        c \in CurrentSections, h \in HourlySections}

\* Weather codes handed to _map_weather_code: the integers around the
\* table's keys, 999, and values of other types a JSON body can hold.
WeatherCodes ==
    {PyInt(n) : n \in -1..100} \cup
    {PyInt(999), PyFloat(610000), PyFloat(615000), NaN, PyStr("61"), None}
MapCodeArgs == {[f |-> "map_weather_code", code |-> c] : c \in WeatherCodes}

\* fetch_weather, by what session.get gives back
FetchArgs == {[f |-> "fetch_weather", response |-> r] : r \in Responses}

InitFn ==
    /\ InitService
    /\ brokerUp
    /\ fn = "none"
    /\ arg \in NormalizeArgs \cup ValidateArgs \cup ExtractArgs \cup MapCodeArgs
               \cup FetchArgs
    /\ ret = Null

\* normalize_weather_data(weather_data, city, latitude, longitude)
ApplyNormalize ==
    /\ fn = "none" /\ arg.f = "normalize"
    /\ fn' = "normalize"
    /\ ret' = normalize_weather_data(arg.weather_data, arg.city, arg.latitude,
                                     arg.longitude, default_source)
    /\ UNCHANGED <<connection, channel, connState, chanState, brokerUp, delivered,
                   opens, call, calls, scope, svcVars, arg>>

\* validate_normalized_structure(normalized), on what normalize_weather_data
\* returned
ApplyValidateNormalized ==
    /\ fn = "normalize" /\ ret.exc = "none"
    /\ fn' = "normalize+validate"
    /\ ret' = validate_normalized_structure(ret.val)
    /\ UNCHANGED <<connection, channel, connState, chanState, brokerUp, delivered,
                   opens, call, calls, scope, svcVars, arg>>

\* validate_normalized_structure(data)
ApplyValidate ==
    /\ fn = "none" /\ arg.f = "validate"
    /\ fn' = "validate"
    /\ ret' = validate_normalized_structure(arg.data)
    /\ UNCHANGED <<connection, channel, connState, chanState, brokerUp, delivered,
                   opens, call, calls, scope, svcVars, arg>>

\* extract_weather_data(api_response)
ApplyExtract ==
    /\ fn = "none" /\ arg.f = "extract"
    /\ fn' = "extract"
    /\ ret' = extract_weather_data(arg.api_response)
    /\ UNCHANGED <<connection, channel, connState, chanState, brokerUp, delivered,
                   opens, call, calls, scope, svcVars, arg>>

\* _map_weather_code(code)
ApplyMapWeatherCode ==
    /\ fn = "none" /\ arg.f = "map_weather_code"
    /\ fn' = "map_weather_code"
    /\ ret' = map_weather_code(arg.code)
    /\ UNCHANGED <<connection, channel, connState, chanState, brokerUp, delivered,
                   opens, call, calls, scope, svcVars, arg>>

\* fetch_weather(latitude, longitude)
ApplyFetch ==
    /\ fn = "none" /\ arg.f = "fetch_weather"
    /\ fn' = "fetch_weather"
    /\ ret' = fetch_weather(arg.response)
    /\ UNCHANGED <<connection, channel, connState, chanState, brokerUp, delivered,
                   opens, call, calls, scope, svcVars, arg>>

NextFn ==
    \/ ApplyFetch
    \/ ApplyMapWeatherCode
    \/ ApplyNormalize
    \/ ApplyValidateNormalized
    \/ ApplyValidate
    \/ ApplyExtract

SpecFn == InitFn /\ [][NextFn]_vars

\* ======================================================================
\* Properties
\* ======================================================================

\* The publisher was not connected when the last call was made: a handle
\* missing, or the connection no longer open.
CalledNotConnected == call.pre[1] = 0 \/ call.pre[2] = 0 \/ ~call.preOpen

\* C3: in every sequence of connect / publish / disconnect calls, a publish()
\* made while the publisher is not connected raises QueuePublisherError
\* "Not connected ..." and does not invoke basic_publish.
C3_PublishNotConnectedFails ==
    (call.op = "publish" /\ CalledNotConnected) =>
        /\ call.ret = Raise("QueuePublisherError", "Not connected to RabbitMQ")
        /\ ~call.send

\* C3 witness: publish() was called on a publisher whose handles are set but
\* whose connection is no longer open.
C3_Witness ==
    /\ call.op = "publish"
    /\ call.pre[1] # 0 /\ call.pre[2] # 0 /\ ~call.preOpen
    /\ call.ret.exc = "QueuePublisherError"

\* C7: disconnect() never raises and leaves both handles released, in
\* whatever state it is called.
C7_DisconnectAlwaysReleases ==
    call.op = "disconnect" =>
        /\ call.ret = NoExc
        /\ connection = 0
        /\ channel = 0

\* C7 witness: disconnect() was called on a connected publisher and
\* connection.close() raised.
C7_Witness ==
    /\ call.op = "disconnect"
    /\ call.pre[1] # 0 /\ call.preOpen
    /\ call.closeRaised

\* C9 (as claimed): connect() ends Connected or raises QueuePublisherError,
\* whichever step of establishing the connection the broker fails.
C9_ConnectOkOrPublisherError ==
    call.op = "connect" =>
        \/ call.ret.exc = "QueuePublisherError"
        \/ call.ret.exc = "none" /\ call.connected

\* C10 (as claimed): a publish() on a connected publisher returns True or
\* raises QueuePublisherError, never a raw broker exception.
C10_PublishOkOrPublisherError ==
    (call.op = "publish" /\ ~CalledNotConnected) =>
        call.ret.exc \in {"none", "QueuePublisherError"}

\* C8 (as claimed): when the scoped use is over, by whichever path, no
\* connection the publisher opened is still open.
C8_ScopeReleasesConnection ==
    scope \in {"done_normal", "done_raised", "enter_raised"} => OpenConns = {}

\* A cycle has returned (or let an exception out).
CycleOver(rec) == rec.result \in {"True", "False", "raised"}

\* C1: no exception leaves collect_and_publish: whichever stage fails, and
\* with whatever kind of exception, the cycle returns False and the service
\* is still there.
C1_CycleFailureReturnsFalse ==
    /\ outcome.result # "raised"
    /\ (CycleOver(outcome) /\ outcome.failed # "none") =>
            outcome.result = "False" /\ pc # "crashed"

\* C1 witness: a stage raised an exception of none of the three expected
\* kinds and the cycle returned False.
C1_Witness ==
    /\ CycleOver(outcome)
    /\ outcome.exc \in {"RuntimeError", "AttributeError", "AMQPConnectionError"}
    /\ outcome.result = "False"

\* C2: a cycle whose fetch, extraction, normalisation or serialisation
\* failed did not call publisher.publish: nothing was sent.
C2_NoPublishAfterStageFailure ==
    outcome.failed \in {"fetch", "extract", "normalize", "serialize"} =>
        /\ outcome.publishCalls = 0
        /\ outcome.sends = 0
        /\ stage # "publish"
        /\ CycleOver(outcome) => delivered = outcome.deliveredAtStart

\* C2 witness: a cycle failed in normalisation (humidity 150) and is over.
C2_Witness ==
    /\ outcome.failed = "normalize"
    /\ outcome.payload = PayloadHumidity150
    /\ outcome.result = "False"

\* C4: a cycle whose fetch failed leaves nothing behind: the service goes on
\* to the next cycle, the locals are dropped, the publisher is as it was; and
\* the cycle after it, given a valid payload and a publisher whose send the
\* broker accepts, returns True.
C4_FetchFailureLeavesNoState ==
    /\ (CycleOver(outcome) /\ outcome.failed = "fetch") =>
            /\ pc # "crashed"
            /\ outcome.pubAtEnd = outcome.pubAtStart
            /\ stage = "idle" =>
                   /\ api_response = Null /\ weather_data = Null
                   /\ normalized = Null /\ message = Null
    /\ (CycleOver(outcome) /\ prev.failed = "fetch"
            /\ outcome.payload \in ValidPayloads /\ outcome.accepting) =>
            outcome.result = "True"

\* C4 witness: the fetch of one cycle failed with WeatherAPIError and the
\* next cycle returned True.
C4_Witness ==
    /\ prev.failed = "fetch" /\ prev.exc = "WeatherAPIError"
    /\ outcome.result = "True"

\* C5 (as claimed): after a cycle whose publish raised QueuePublisherError,
\* the next cycle returns True once the broker accepts messages again (it is
\* up when the cycle publishes a valid reading).
C5_NextCycleSucceedsAfterPublishFailure ==
    (/\ CycleOver(outcome)
     /\ prev.failed = "publish" /\ prev.exc = "QueuePublisherError"
     /\ outcome.payload \in ValidPayloads
     /\ outcome.publishCalls = 1 /\ outcome.brokerUpAtPublish) =>
        outcome.result = "True"

\* C6 (as claimed): when the connect() of start() failed, the service still
\* starts and the publish of the first cycle tries to establish the
\* connection again.
C6_FirstPublishReconnects ==
    (/\ startup.connect = "QueuePublisherError"
     /\ cycleNo = 1 /\ CycleOver(outcome) /\ outcome.publishCalls = 1) =>
        /\ pc # "crashed"
        /\ opens >= 2

\* The weather section of the message the cycle is about to publish.
MessageWeather == message.doc.kv["weather"].kv

\* C11 (as claimed): every message that reaches publisher.publish has
\* humidity and rain probability in 0..100, a wind speed >= 0 and a
\* non-empty condition, whatever the provider's payload was.
C11_PublishedMessageInRange ==
    stage = "publish" =>
        /\ py_ge(MessageWeather["humidity"], 0)
        /\ py_le(MessageWeather["humidity"], 100 * 10000)
        /\ py_ge(MessageWeather["rain_probability"], 0)
        /\ py_le(MessageWeather["rain_probability"], 100 * 10000)
        /\ py_ge(MessageWeather["wind_speed"], 0)
        /\ MessageWeather["condition"].t = "str"
        /\ MessageWeather["condition"].s # ""

\* C12: at most one cycle executes at any time. No cycle begins while
\* another is running; while the first cycle runs the scheduler has not been
\* started; and a cycle in flight after that is the one job instance.
C12_CyclesNeverOverlap ==
    /\ ~outcome.overlapped /\ ~prev.overlapped
    /\ pc \in {"schedule", "running"} => cycleNo >= 1
    /\ (cycleNo = 1 /\ ~CycleOver(outcome)) => pc = "first_cycle"
    /\ running_instances <= 1

\* C12 witness: a tick came while a scheduled cycle was running, was
\* skipped, and that cycle ran to its end.
C12_Witness ==
    /\ cycleNo >= 2
    /\ outcome.tickSkipped
    /\ outcome.result = "True"

\* The process has ended after a termination signal.
Exited == shutdown.signal # "none" /\ pc \in {"stopped", "killed", "interrupted"}

\* C13 (as claimed): stop() does not disconnect the publisher underneath a
\* cycle in flight: when the signal's handler released the connection, no
\* cycle was between its start and its return.
C13_StopWaitsForCycle ==
    shutdown.handler = "_signal_handler" => shutdown.inflight = "idle"

\* C14 (as claimed): a termination signal at any point after start() was
\* entered ends in graceful shutdown: when the process has ended no further
\* cycle was started and the publisher is Disconnected.
C14_SignalShutsDownGracefully ==
    Exited =>
        /\ cycleNo = shutdown.cycleNo
        /\ connection = 0 /\ channel = 0

\* The reading handed to normalize_weather_data, and its value for a key.
HasKey(d, k) == k \in DOMAIN d.kv
NumberIn0to100(x) == IsNumber(x) /\ py_ge(x, 0) /\ py_le(x, 100 * 10000)

\* A reading as C15 describes it: humidity and rain_probability in 0..100,
\* wind_speed >= 0, a numeric temperature and a non-empty condition.
ReadingIsValid(rd) ==
    /\ \A k \in {"temperature", "humidity", "wind_speed", "condition",
                  "rain_probability"} : HasKey(rd, k)
    /\ IsNumber(rd.kv["temperature"])
    /\ NumberIn0to100(rd.kv["humidity"])
    /\ NumberIn0to100(rd.kv["rain_probability"])
    /\ IsNumber(rd.kv["wind_speed"]) /\ py_ge(rd.kv["wind_speed"], 0)
    /\ rd.kv["condition"].t = "str" /\ rd.kv["condition"].s # ""

\* C15 (as claimed): for every valid reading normalize_weather_data succeeds
\* and returns a message whose weather section has exactly the keys
\* temperature, humidity, windSpeed, condition, rainProbability and whose
\* location section has exactly city, latitude, longitude.
C15_NormalizedHasCamelCaseKeys ==
    (fn = "normalize" /\ ReadingIsValid(arg.weather_data)) =>
        /\ ret.exc = "none"
        /\ DOMAIN ret.val.kv["weather"].kv =
               {"temperature", "humidity", "windSpeed", "condition", "rainProbability"}
        /\ DOMAIN ret.val.kv["location"].kv = {"city", "latitude", "longitude"}

\* The fields of a reading that break a rule of C16: absent; temperature not
\* numeric; humidity or rain_probability not a number in 0..100; wind_speed
\* not a number or negative; condition not a string or empty.
Offending(rd) ==
    {k \in {"temperature", "humidity", "wind_speed", "condition", "rain_probability"} :
        \/ ~HasKey(rd, k)
        \/ k = "temperature" /\ ~IsNumber(rd.kv[k])
        \/ k \in {"humidity", "rain_probability"} /\ ~NumberIn0to100(rd.kv[k])
        \/ k = "wind_speed" /\ (~IsNumber(rd.kv[k]) \/ py_lt(rd.kv[k], 0))
        \/ k = "condition" /\ (rd.kv[k].t # "str" \/ rd.kv[k].s = "")}

\* The error messages that name field k.
NamesField(k) == {"Missing required field: " \o k, "Invalid " \o k \o " type",
                  "Invalid " \o k \o " value"}

\* C16: for every reading that breaks a rule normalize_weather_data raises
\* ValueError, returns no message, and the error names a field that breaks one.
C16_InvalidReadingRaisesValueError ==
    (fn = "normalize" /\ Offending(arg.weather_data) # {}) =>
        /\ ret.exc = "ValueError"
        /\ ret.val = None
        /\ \E k \in Offending(arg.weather_data) : ret.msg \in NamesField(k)

\* C16 witness: a reading whose only fault is humidity = 150 was refused,
\* the error naming humidity.
C16_Witness ==
    /\ fn = "normalize"
    /\ Offending(arg.weather_data) = {"humidity"}
    /\ HasKey(arg.weather_data, "humidity")
    /\ arg.weather_data.kv["humidity"] = PyInt(150)
    /\ ret.exc = "ValueError" /\ ret.msg = "Invalid humidity value"

\* C17: round trip. Whenever normalize_weather_data accepted a reading,
\* validate_normalized_structure of what it returned returns True.
C17_NormalizedPassesValidation ==
    fn = "normalize+validate" => ret = Ok(PyTrue)

\* C17 witness: a valid reading was normalised, for the configured latitude,
\* and the result validated.
C17_Witness ==
    /\ fn = "normalize+validate"
    /\ ReadingIsValid(arg.weather_data)
    /\ arg.latitude = location_lat
    /\ ret.exc = "none"

\* A message has the four top-level keys, a location with its three keys and
\* a weather section that is a dict.
WellFormedOutsideWeather(m) ==
    /\ \A k \in {"timestamp", "location", "weather", "source"} : HasKey(m, k)
    /\ m.kv["location"].t = "dict"
    /\ \A k \in {"city", "latitude", "longitude"} : HasKey(m.kv["location"], k)
    /\ m.kv["weather"].t = "dict"

CamelCaseKeys == {"temperature", "humidity", "windSpeed", "condition", "rainProbability"}

\* The camelCase weather keys a message lacks.
MissingCamelCase(m) == {k \in CamelCaseKeys : ~HasKey(m.kv["weather"], k)}

\* C18 (as claimed): validate_normalized_structure returns True for every
\* message with the four top-level keys, the three location keys, a parseable
\* timestamp and the five camelCase weather keys; for a message lacking a
\* weather key it raises ValueError naming that key in camelCase.
C18_ValidateAcceptsCamelCase ==
    (fn = "validate" /\ WellFormedOutsideWeather(arg.data)) =>
        /\ (MissingCamelCase(arg.data) = {}
               /\ arg.data.kv["timestamp"].t = "str"
               /\ arg.data.kv["timestamp"].s \in IsoTexts) => ret = Ok(PyTrue)
        /\ MissingCamelCase(arg.data) # {} =>
               /\ ret.exc = "ValueError"
               /\ \E k \in MissingCamelCase(arg.data) :
                      ret.msg = "Missing weather field: " \o k

\* The current section of a payload ({} when the key is absent) and the
\* required fields it lacks (absent, or null).
CurrentOf(p) == IF HasKey(p, "current") THEN p.kv["current"] ELSE EmptyDict
MissingCurrent(p) ==
    {k \in {"temperature_2m", "relative_humidity_2m", "wind_speed_10m"} :
        ~HasKey(CurrentOf(p), k) \/ CurrentOf(p).kv[k] = None}

\* C20: whenever temperature_2m, relative_humidity_2m or wind_speed_10m is
\* absent from the current section, extract_weather_data raises ValueError,
\* the message naming a missing field, and returns no reading.
C20_MissingFieldRaisesValueError ==
    (fn = "extract" /\ CurrentOf(arg.api_response).t = "dict"
        /\ MissingCurrent(arg.api_response) # {}) =>
        /\ ret.exc = "ValueError"
        /\ ret.val = None
        /\ \E k \in MissingCurrent(arg.api_response) :
               ret.msg = "Missing " \o k \o " in response"

\* C20 witness: a payload with temperature and humidity but no wind speed
\* was refused, the error naming wind_speed_10m.
C20_Witness ==
    /\ fn = "extract"
    /\ CurrentOf(arg.api_response).t = "dict"
    /\ MissingCurrent(arg.api_response) = {"wind_speed_10m"}
    /\ ret.exc = "ValueError" /\ ret.msg = "Missing wind_speed_10m in response"

\* What C19 expects of the message for payload p: the label of its weather
\* code, its first hourly precipitation probability (0 without one) and its
\* wind speed.
ExpectedCondition(p) == PyStr(code_map[p.kv["current"].kv["weather_code"].v \div 10000])
ExpectedRainProbability(p) ==
    IF HasKey(p, "hourly") THEN p.kv["hourly"].kv["precipitation_probability"].items[1]
    ELSE PyInt(0)
ExpectedWindSpeed(p) == p.kv["current"].kv["wind_speed_10m"]

\* C19 (as claimed): for every valid payload a cycle with a working
\* publisher returns True and publishes exactly one message, whose
\* weather.condition is the label of the payload's weather code, whose
\* weather.rainProbability is the first hourly probability, whose
\* weather.windSpeed is the payload's wind speed and whose source is
\* "open-meteo".
C19_EndToEndMessage ==
    (CycleOver(outcome) /\ outcome.payload \in ValidPayloads /\ outcome.accepting) =>
        /\ outcome.result = "True"
        /\ outcome.sends = 1
        /\ delivered = outcome.deliveredAtStart + 1
        /\ outcome.published.kv["source"] = PyStr("open-meteo")
        /\ LET weather == outcome.published.kv["weather"] IN
           /\ weather.kv["condition"] = ExpectedCondition(outcome.payload)
           /\ HasKey(weather, "rainProbability")
           /\ weather.kv["rainProbability"] = ExpectedRainProbability(outcome.payload)
           /\ HasKey(weather, "windSpeed")
           /\ weather.kv["windSpeed"].v = ExpectedWindSpeed(outcome.payload).v

\* The current and hourly sections of a payload, when they are mappings.
HourlyOf(p) == IF HasKey(p, "hourly") THEN p.kv["hourly"] ELSE EmptyDict

\* A number a provider sends for a measurement: an int or a float, not NaN.
IsMeasurement(x) == IsNumber(x) /\ ~IsNaN(x)

\* The three required current fields are present and are measurements, and
\* the weather code, if present, is an integer.
CurrentIsValid(p) ==
    /\ CurrentOf(p).t = "dict"
    /\ \A k \in {"temperature_2m", "relative_humidity_2m", "wind_speed_10m"} :
          HasKey(CurrentOf(p), k) /\ IsMeasurement(CurrentOf(p).kv[k])
    /\ HasKey(CurrentOf(p), "weather_code") => CurrentOf(p).kv["weather_code"].t = "int"

\* The hourly section holds a non-empty sequence of integer probabilities.
HasProbabilities(p) ==
    /\ HourlyOf(p).t = "dict"
    /\ HasKey(HourlyOf(p), "precipitation_probability")
    /\ HourlyOf(p).kv["precipitation_probability"].t = "list"
    /\ Len(HourlyOf(p).kv["precipitation_probability"].items) > 0
    /\ \A i \in 1..Len(HourlyOf(p).kv["precipitation_probability"].items) :
          HourlyOf(p).kv["precipitation_probability"].items[i].t = "int"

\* C21: for a valid payload with the four current fields and a non-empty
\* hourly sequence, extract_weather_data returns a reading whose temperature
\* and wind_speed are the payload's values as floats, whose humidity is the
\* payload's as an int, whose rain_probability is the first element of the
\* sequence, and whose condition is a non-empty string.
C21_ExtractedValuesMatchPayload ==
    (fn = "extract" /\ CurrentIsValid(arg.api_response)
        /\ HasKey(CurrentOf(arg.api_response), "weather_code")
        /\ HasProbabilities(arg.api_response)) =>
        LET cur == CurrentOf(arg.api_response).kv
            probs == HourlyOf(arg.api_response).kv["precipitation_probability"].items
        IN
        /\ ret.exc = "none"
        /\ ret.val.kv["temperature"] = PyFloat(cur["temperature_2m"].v)
        /\ ret.val.kv["humidity"].t = "int"
        /\ ret.val.kv["humidity"].v = cur["relative_humidity_2m"].v
                                      - (cur["relative_humidity_2m"].v % 10000)
        /\ ret.val.kv["wind_speed"] = PyFloat(cur["wind_speed_10m"].v)
        /\ ret.val.kv["rain_probability"] = probs[1]
        /\ ret.val.kv["condition"].t = "str"
        /\ ret.val.kv["condition"].s # ""

\* C21 witness: a payload whose hourly sequence is [45, 100] gave
\* rain_probability 45.
C21_Witness ==
    /\ fn = "extract"
    /\ CurrentIsValid(arg.api_response)
    /\ HourlyOf(arg.api_response) = Hourly(PyList(<<PyInt(45), PyInt(100)>>))
    /\ ret.exc = "none"
    /\ ret.val.kv["rain_probability"] = PyInt(45)

\* The hourly data is missing: no hourly section, no sequence in it, or an
\* empty one.
HourlyDataMissing(p) ==
    \/ ~HasKey(p, "hourly")
    \/ /\ HourlyOf(p).t = "dict"
       /\ \/ ~HasKey(HourlyOf(p), "precipitation_probability")
          \/ HourlyOf(p).kv["precipitation_probability"] = PyList(<<>>)

\* C22: when the hourly data is missing and the three required current
\* fields are there, extract_weather_data succeeds with rain_probability 0.
C22_MissingHourlyGivesZero ==
    (fn = "extract" /\ CurrentIsValid(arg.api_response)
        /\ HourlyDataMissing(arg.api_response)) =>
        /\ ret.exc = "none"
        /\ ret.val.kv["rain_probability"] = PyInt(0)

\* C22 witness: a payload with an empty precipitation_probability sequence
\* was extracted.
C22_Witness ==
    /\ fn = "extract"
    /\ CurrentIsValid(arg.api_response)
    /\ HourlyOf(arg.api_response) = Hourly(PyList(<<>>))
    /\ ret.exc = "none"

\* The labels the tests of _map_weather_code and C23 name.
NamedLabels ==
    (0 :> "clear") @@ (2 :> "partly_cloudy") @@ (61 :> "rain") @@ (63 :> "rain") @@
    (65 :> "heavy_rain") @@ (71 :> "snow") @@ (75 :> "heavy_snow") @@
    (95 :> "thunderstorm") @@ (96 :> "thunderstorm_hail")

\* C23: a code that is no key of the table maps to "unknown" without
\* failing; a code of the table maps to its fixed, non-empty label.
C23_CodeMapsToLabelOrUnknown ==
    fn = "map_weather_code" =>
        /\ ret.exc = "none"
        /\ ret.val.t = "str" /\ ret.val.s # ""
        /\ arg.code.t = "int" =>
              LET n == arg.code.v \div 10000 IN
              /\ n \notin DOMAIN code_map => ret.val.s = "unknown"
              /\ n \in DOMAIN code_map => ret.val.s = code_map[n] /\ ret.val.s # "unknown"
              /\ n \in DOMAIN NamedLabels => ret.val.s = NamedLabels[n]
        /\ arg.code.t # "int" =>
              ret.val.s = IF arg.code = PyFloat(610000) THEN "rain" ELSE "unknown"

\* C23 witness: code 4, which the table does not hold, mapped to "unknown".
C23_Witness ==
    /\ fn = "map_weather_code"
    /\ arg.code = PyInt(4)
    /\ ret = Ok(PyStr("unknown"))

\* C24: a payload with the three required current fields and no
\* weather_code key is extracted with condition "clear".
C24_DefaultWeatherCodeIsClear ==
    (fn = "extract" /\ CurrentIsValid(arg.api_response)
        /\ ~HasKey(CurrentOf(arg.api_response), "weather_code")
        /\ (HasProbabilities(arg.api_response) \/ HourlyDataMissing(arg.api_response))) =>
        /\ ret.exc = "none"
        /\ ret.val.kv["condition"] = PyStr("clear")

\* C24 witness: such a payload, with probabilities [80, 75, 70], was
\* extracted with condition "clear".
C24_Witness ==
    /\ fn = "extract"
    /\ CurrentIsValid(arg.api_response)
    /\ ~HasKey(CurrentOf(arg.api_response), "weather_code")
    /\ HasProbabilities(arg.api_response)
    /\ ret.exc = "none"
    /\ ret.val.kv["condition"] = PyStr("clear")

\* The request failed in one of the ways the contract lists: a timeout, a
\* connection failure, a status outside 200..299, a body that does not parse.
RequestFailed(r) ==
    \/ r.raised \in {"Timeout", "ConnectionError"}
    \/ r.raised = "none" /\ (r.status_code < 200 \/ r.status_code >= 300)
    \/ r.raised = "none" /\ r.body = Unparsable

\* C25 (as claimed): fetch_weather raises WeatherAPIError for every failure
\* of its request (timeout, connection failure, status outside 2xx,
\* unparsable body) and returns the payload only for a 2xx response whose
\* body parses, and then that body unchanged.
C25_FetchFailsOrReturns2xxPayload ==
    fn = "fetch_weather" =>
        /\ RequestFailed(arg.response) => ret.exc = "WeatherAPIError"
        /\ ret.exc = "none" =>
               /\ ~RequestFailed(arg.response)
               /\ arg.response.raised = "none"
               /\ ret.val = arg.response.body

\* The order of the stages in collect_and_publish.
StageOrder == <<"fetch", "extract", "normalize", "serialize", "publish">>

\* s is an initial part of t.
IsPrefix(s, t) == Len(s) <= Len(t) /\ \A i \in 1..Len(s) : s[i] = t[i]

\* The cycle of this record is over.
Ended(rec) == rec.result \in {"True", "False", "raised"}

\* C26: within a cycle the stages start in the order fetch, extract,
\* normalize, serialize, publish, each at most once; a stage starts only when
\* all those before it have succeeded, and nothing starts after a failure;
\* the cycle calls session.get at most once and publisher.publish at most once.
C26_StagesInOrderAtMostOnce ==
    /\ IsPrefix(outcome.ran, StageOrder)
    /\ outcome.fetches <= 1
    /\ outcome.publishCalls <= 1
    /\ \A k \in 1..Len(StageOrder) :
           stage = StageOrder[k] =>
               /\ outcome.ran = SubSeq(StageOrder, 1, k - 1)
               /\ outcome.failed = "none"
    /\ outcome.failed # "none" =>
           /\ outcome.ran # <<>>
           /\ outcome.ran[Len(outcome.ran)] = outcome.failed
           /\ stage = "idle"

\* C26 witness: a cycle ran the five stages in order, with one fetch and one
\* publish, after a cycle that stopped at normalize having run three.
C26_Witness ==
    /\ outcome.result = "True"
    /\ outcome.ran = StageOrder
    /\ outcome.fetches = 1
    /\ outcome.publishCalls = 1
    /\ prev.failed = "normalize"
    /\ prev.ran = <<"fetch", "extract", "normalize">>
    /\ prev.publishCalls = 0

C28_NoLeakedConnection ==
    /\ Cardinality(OpenConns) <= 1
    /\ \A c \in OpenConns : c = connection

\* C29: a cycle returns True or False; True exactly when publisher.publish
\* was called once and nothing was raised, and then basic_publish was
\* invoked once and the broker took one message; a cycle that returns False
\* completed no send.
C29_TrueIffOnePublishReturned ==
    Ended(outcome) =>
        /\ outcome.result \in {"True", "False"}
        /\ outcome.result = "True" <=>
               (outcome.publishCalls = 1 /\ outcome.exc = "none")
        /\ outcome.result = "True" =>
               /\ outcome.sends = 1
               /\ outcome.completed = 1
               /\ outcome.published # Null
        /\ outcome.result = "False" =>
               /\ outcome.completed = 0
               /\ outcome.published = Null
               /\ outcome.exc # "none"

\* C29 witness: a cycle returned True with one send, and the next called
\* publish once, basic_publish raised, and it returned False with no
\* message taken.
C29_Witness ==
    /\ prev.result = "True" /\ prev.publishCalls = 1 /\ prev.completed = 1
    /\ outcome.result = "False" /\ outcome.failed = "publish"
    /\ outcome.publishCalls = 1 /\ outcome.sends = 1 /\ outcome.completed = 0
    /\ delivered = prev.deliveredAtStart + 1

\* C30 (as claimed): for every structured payload extract_weather_data
\* returns a complete five-field reading or raises ValueError; no other kind
\* of exception leaves it.
C30_ExtractReturnsOrValueError ==
    fn = "extract" =>
        \/ ret.exc = "ValueError"
        \/ /\ ret.exc = "none"
           /\ DOMAIN ret.val.kv = {"temperature", "humidity", "wind_speed", "condition",
                                   "rain_probability"}

====
